---------------------------- MODULE Spec2Model ----------------------------
(***************************************************************************)
(* Orchestration loop of the data-analysis agent:                          *)
(*   agent/data_agent.py     DataAnalysisAgent.process_query               *)
(*                           DataAnalysisAgent.clear_context               *)
(*   agent/tool_registry.py  ToolRegistry, all its methods                 *)
(*   tools/base_tool.py      BaseTool.safe_execute                         *)
(*   tools/sql_query.py, tools/data_visualization.py,                      *)
(*   tools/report_generator.py   the execute method of each tool           *)
(*   app.py                  the callbacks that share the one agent        *)
(*   core/dialogue_context.py DialogueContext, all its methods             *)
(*   core/llm_client.py      LLMClient.plan_tools / _parse_tool_plan       *)
(*                                                                         *)
(* Texts (Python str) are sequences of string atoms, so that an f-string   *)
(* is the concatenation of its pieces.  The Chinese literals of the code   *)
(* are written as ASCII atoms: "tool_not_found:" is the literal of         *)
(* tool_registry.py:31, "tool_failed:" the one of base_tool.py:50.         *)
(***************************************************************************)
EXTENDS Naturals, Sequences, FiniteSets

VARIABLES
    messages,             \* DialogueContext.messages
    pc,                   \* position of the process_query call
    user_query,           \* argument of the running process_query
    history,              \* local `history` (data_agent.py:67)
    plan,                 \* local `plan` (data_agent.py:70)
    i,                    \* 1-based position of the for loop in plan[:MAX_STEPS]
    tool_results,         \* local `tool_results`
    images,               \* local `images`
    accumulated_context,  \* local `accumulated_context`
    pending,              \* value registry.execute has just returned (`result`, line 105)
    retval,               \* value returned by process_query
    execLog,              \* the registry.execute calls of the running query, in call order
    llmCalls,             \* the language-model calls of the running query, in call order
    charts,               \* number of chart files the visualization tool has written
    asked,                \* queries the user has already sent
    error,                \* the exception that left process_query, "None" when none did
    max_history,          \* DialogueContext.max_history
    current_session_id,   \* DialogueContext.current_session_id, NoSession for None
    session_start_time,   \* DialogueContext.session_start_time, NoTime for None
    now,                  \* the reading of datetime.now(), in clock ticks
    created,              \* the ids of the sessions the context has started, in order
    evicted,              \* the turns the latest add_message has dropped
    called,               \* the latest call on the context: method, role, content
    window_size,          \* argument of the latest get_formatted_history call
    planner_response,     \* local `response` of plan_tools (llm_client.py:127)
    parsed,               \* what _parse_tool_plan made of that answer
    concurrent,           \* a second process_query call on the same agent
    tools,                \* ToolRegistry._tools, in insertion order
    registered            \* the tools passed to ToolRegistry.register, in call order

vars == <<messages, pc, user_query, history, plan, i, tool_results, images,
          accumulated_context, pending, retval, execLog, llmCalls, charts, asked,
          error, max_history, current_session_id, session_start_time, now, created,
          evicted, called, window_size, planner_response, parsed, concurrent,
          tools, registered>>

\* The fields of the DialogueContext besides its turns, and the planner's exchange.
sessionVars ==
    <<max_history, current_session_id, session_start_time, created, evicted, called>>
plannerVars == <<planner_response, parsed>>

\* What a process_query call never writes: the locals of another call and the
\* registry.
otherVars == <<concurrent, tools, registered>>

---------------------------------------------------------------------------
(* Bounds of the model and constants of the program *)

MAX_STEPS == 8
WindowSize == 10
MaxHistory == 50

\* Clock ticks per second: datetime.now() reads finer than the second.
TicksPerSecond == 2

MaxPlanLen == 9
MaxVaried == 2
MaxElems == 2
MaxCap == 3
MaxSessions == 2
MaxWindow == 3
MaxTime == 2
MaxObjects == 2
MaxRegistrations == 3

Queries == {"q1", "q2"}
MainQueries == {"q1"}

---------------------------------------------------------------------------
(* Values *)

NoText == <<>>
NoPath == <<>>

ArgKeys == {"question", "analysis_results", "context", "name", "message", "sql"}

\* A Python dict of keyword arguments: the keys present and their values.
Dict(f) ==
    [kind |-> "dict", keys |-> DOMAIN f,
     val |-> [k \in ArgKeys |-> IF k \in DOMAIN f THEN f[k] ELSE NoText]]

EmptyDict == [kind |-> "dict", keys |-> {}, val |-> [k \in ArgKeys |-> NoText]]

\* A JSON value that is not an object (null, a string, a list, a number).
NotADict == [kind |-> "null", keys |-> {}, val |-> [k \in ArgKeys |-> NoText]]

\* dict.setdefault(k, v)
SetDefault(args, k, v) ==
    IF k \in args.keys THEN args
    ELSE [args EXCEPT !.keys = @ \cup {k}, !.val[k] = v]

\* dict.get(k, "") of a keyword-argument dict
ArgGet(args, k) == IF k \in args.keys THEN args.val[k] ELSE NoText

\* A plan step as json.loads returns it: the keys present and their values.
Step(has, tool, args, reason) ==
    [has |-> has, tool |-> tool, args |-> args, reason |-> reason]

\* step.get("tool", ""), step.get("args", {}), step.get("reason", "")
StepTool(step) == IF "tool" \in step.has THEN step.tool ELSE ""
StepArgs(step) == IF "args" \in step.has THEN step.args ELSE EmptyDict
StepReason(step) == IF "reason" \in step.has THEN step.reason ELSE ""


---------------------------------------------------------------------------
(* core/dialogue_context.py *)

\* s[-n:] of Python: the last n elements, and the whole list when n = 0.
LastN(s, n) ==
    IF n = 0 \/ Len(s) <= n THEN s
    ELSE SubSeq(s, Len(s) - n + 1, Len(s))

NoMetadata == [keys |-> {}, type |-> "", tools_used |-> <<>>, images |-> <<>>]

NoSession == <<>>
NoTime == <<>>

\* datetime.now().strftime("%Y%m%d_%H%M%S"): the reading cut to whole seconds
SessionId(t) == <<t \div TicksPerSecond>>

\* A DialogueContext: its four fields.
Context(msgs, maxh, id, start) ==
    [messages |-> msgs, max_history |-> maxh, current_session_id |-> id,
     session_start_time |-> start]

\* DialogueContext.__init__
NewContext(maxh) == Context(<<>>, maxh, NoSession, NoTime)

\* DialogueContext.start_new_session at clock reading t (lines 19 and 20 read the
\* clock one after the other; both readings are taken to be t)
StartNewSession(c, t) ==
    [c EXCEPT !.current_session_id = SessionId(t),
              !.session_start_time = <<t>>,
              !.messages = <<>>]

\* A context that never starts a session on its own.
NeverStartsSession(c, t) == c

\* lines 31-32 of add_message: the session is started when there is none
EnsureSession(c, t) ==
    IF c.current_session_id = NoSession THEN StartNewSession(c, t) ELSE c

\* Keeps the first turns instead of the last ones.
KeepOldest(msgs, maxh) ==
    IF Len(msgs) > maxh /\ maxh > 0 THEN SubSeq(msgs, 1, maxh) ELSE msgs

\* lines 42-43 of add_message: keep the last max_history turns
TrimToMax(msgs, maxh) ==
    IF Len(msgs) > maxh THEN LastN(msgs, maxh) ELSE msgs

\* DialogueContext.add_message at clock reading t
AddMessage(c, role, content, metadata, t) ==
    LET s == EnsureSession(c, t)
        appended == Append(s.messages, [role |-> role, content |-> content,
                                        metadata |-> metadata])
    IN  [s EXCEPT !.messages = TrimToMax(appended, s.max_history)]

\* DialogueContext.clear_context
ClearContext(c) ==
    [c EXCEPT !.messages = <<>>,
              !.current_session_id = NoSession,
              !.session_start_time = NoTime]

\* A window on the oldest turns.
OldestWindow(msgs, n) ==
    IF msgs # <<>> THEN SubSeq(msgs, 1, IF Len(msgs) <= n THEN Len(msgs) ELSE n)
    ELSE <<>>

\* DialogueContext.get_context_window
ContextWindow(msgs, n) == IF msgs # <<>> THEN LastN(msgs, n) ELSE <<>>

RoleLabel(role) == IF role = "user" THEN "user_label:" ELSE "assistant_label:"

RECURSIVE JoinLines(_)
JoinLines(recent) ==
    IF recent = <<>> THEN <<>>
    ELSE LET line == <<RoleLabel(recent[1].role)>> \o recent[1].content
         IN  IF Len(recent) = 1 THEN line
             ELSE line \o <<"\n">> \o JoinLines(Tail(recent))

\* DialogueContext.get_formatted_history
FormattedHistory(msgs, n) ==
    LET recent == ContextWindow(msgs, n)
    IN  IF recent = <<>> THEN <<"no_history">> ELSE JoinLines(recent)

---------------------------------------------------------------------------
(* The tools: what the execute method of each tool can do *)

RegisteredTools ==
    {"data_inspector", "sql_query", "data_visualization",
     "statistical_analysis", "data_profiling", "report_generator"}

\* What one run of a tool's execute does: it returns a result dict or raises; `cause`
\* says which branch of the tool was taken and `effects` what the run did on the
\* way: "llm" a language-model call, "db" a query sent to the database, "render"
\* a chart drawn, "file" a file written.
Returns(success, text, path) ==
    [raised |-> FALSE,
     value |-> [success |-> success, result |-> text, image_path |-> path],
     cause |-> "", effects |-> {}]

Raises(text) ==
    [raised |-> TRUE,
     value |-> [success |-> FALSE, result |-> text, image_path |-> NoPath],
     cause |-> "", effects |-> {}]

Because(outcome, cause, effects) ==
    [outcome EXCEPT !.cause = cause, !.effects = effects]

\* No tool was run.
NotInvoked(cause) == Because(Returns(FALSE, NoText, NoPath), cause, {})

\* SQLQueryTool.execute (tools/sql_query.py): no question fails at once (lines
\* 99-100).  Otherwise the chain of lines 63-92 asks the model for a query (which
\* may raise), _clean_sql_response cuts the reply (a reply without "SQLQuery:"
\* and without "SELECT" is kept whole, lines 41-43), database.execute_sql runs
\* what it is given, the model is asked to word the answer, and lines 107-111
\* return success = True whatever the database returned.  A query the database
\* rejects comes back as an error text or as an exception, depending on the
\* database tool.
SqlQueryExecute(kwargs) ==
    IF ArgGet(kwargs, "question") = NoText
    THEN {Because(Returns(FALSE, <<"no_question">>, NoPath), "no_question", {})}
    ELSE {Because(Raises(<<"chain_error">>), "llm_raised", {"llm"}),
          Because(Returns(TRUE, <<"sql_answer">>, NoPath), "rows", {"llm", "db"}),
          Because(Returns(TRUE, <<"sql_answer">>, NoPath), "no_rows", {"llm", "db"}),
          Because(Returns(TRUE, <<"sql_answer">>, NoPath),
                  "no_sql_extracted", {"llm", "db"}),
          Because(Raises(<<"db_error">>), "no_sql_extracted", {"llm", "db"}),
          Because(Returns(TRUE, <<"sql_answer">>, NoPath),
                  "query_failed", {"llm", "db"}),
          Because(Raises(<<"db_error">>), "query_failed", {"llm", "db"})}

\* A tool that draws a chart of whatever the query gave, rows or not.
ChartOfAnything(done, n) ==
    {Because(Returns(TRUE, <<"chart_made">>, <<"viz_images/chart", n + 1>>),
             cause, done \cup {"db", "render", "file"}) :
        cause \in {"query_failed", "no_rows", "chart"}}

\* DataVisualizationTool.execute from line 76 on, once a query is at hand:
\* _execute_sql_to_df gives None when the query fails (lines 150-152); no frame
\* or an empty one returns the failure of line 77; _create_chart gives a path or
\* None (line 87); the path is returned with success = True (lines 90-96).
ChartOfFrame(done, n) ==
    {Because(Returns(FALSE, <<"no_viz_data">>, NoPath), "query_failed", done \cup {"db"}),
     Because(Returns(FALSE, <<"no_viz_data">>, NoPath), "no_rows", done \cup {"db"}),
     Because(Returns(FALSE, <<"chart_failed">>, NoPath),
             "chart_failed", done \cup {"db", "render"}),
     Because(Returns(TRUE, <<"chart_made">>, <<"viz_images/chart", n + 1>>),
             "chart", done \cup {"db", "render", "file"})}

\* DataVisualizationTool.execute, lines 60-96: a query given as `sql` is run as it
\* is; otherwise the question goes to _generate_viz_sql, whose model call may
\* raise and whose _extract_sql returns None for a reply without SELECT (lines
\* 70-71); without sql and question the tool fails at once (line 74).
DataVisualizationExecute(kwargs, n) ==
    IF ArgGet(kwargs, "sql") # NoText THEN ChartOfFrame({}, n)
    ELSE IF ArgGet(kwargs, "question") # NoText
    THEN {Because(Raises(<<"llm_error">>), "llm_raised", {"llm"}),
          Because(Returns(FALSE, <<"no_viz_sql">>, NoPath), "no_sql_extracted", {"llm"})}
         \cup ChartOfFrame({"llm"}, n)
    ELSE {Because(Returns(FALSE, <<"no_viz_request">>, NoPath), "no_request", {})}

\* A generator that writes a report of nothing.
ReportOfNothing(kwargs) ==
    {Because(Returns(TRUE, <<"report">>, NoPath), "report", {"llm", "file"}),
     Because(Raises(<<"llm_error">>), "llm_raised", {"llm"})}

\* ReportGeneratorTool.execute, lines 32-47: fails at once without analysis
\* results (lines 37-38); otherwise the model writes the report, or raises, and
\* _save_report writes it to a file.
ReportGeneratorExecute(kwargs) ==
    IF ArgGet(kwargs, "analysis_results") = NoText
    THEN {Because(Returns(FALSE, <<"no_analysis_results">>, NoPath),
                  "no_analysis_results", {})}
    ELSE {Because(Returns(TRUE, <<"report">>, NoPath), "report", {"llm", "file"}),
          Because(Raises(<<"llm_error">>), "llm_raised", {"llm"})}

\* DataInspectorTool / DataProfilingTool / StatisticalAnalysisTool.execute
OtherToolExecute(kwargs) ==
    {Because(Returns(TRUE, <<"table_text">>, NoPath), "rows", {"db"}),
     Because(Returns(FALSE, <<"no_tables">>, NoPath), "no_tables", {"db"}),
     Because(Raises(<<"db_error">>), "query_failed", {"db"})}

ToolExecute(tool, kwargs, n) ==
    CASE tool = "sql_query" -> SqlQueryExecute(kwargs)
      [] tool = "data_visualization" -> DataVisualizationExecute(kwargs, n)
      [] tool = "report_generator" -> ReportGeneratorExecute(kwargs)
      [] OTHER -> OtherToolExecute(kwargs)

---------------------------------------------------------------------------
(* tools/base_tool.py and agent/tool_registry.py *)

\* A wrapper that swallows the exception and says nothing about it.
SilentFailure(tool, outcome) ==
    IF outcome.raised
    THEN [success |-> FALSE, result |-> NoText, image_path |-> NoPath]
    ELSE outcome.value

\* BaseTool.safe_execute: the tool's own return value, or the failure result
\* built from the exception it raised.
SafeExecute(tool, outcome) ==
    IF outcome.raised
    THEN [success |-> FALSE,
          result |-> <<"tool_failed:", tool>> \o outcome.value.result,
          image_path |-> NoPath]
    ELSE outcome.value

\* A tool object: the name it declares and its identity.
Tool(name, id) == [name |-> name, id |-> id]

\* None, where a tool is expected
Absent == Tool("None", 0)

\* A Python dict from names to tools: its items in insertion order.
\* d.get(k)
DictGet(d, k) ==
    IF \E j \in 1..Len(d) : d[j].key = k
    THEN d[CHOOSE j \in 1..Len(d) : d[j].key = k].value
    ELSE Absent

\* d[k] = v: a key the dict holds keeps its place and takes the new value, a new
\* key goes last
DictSet(d, k, v) ==
    IF \E j \in 1..Len(d) : d[j].key = k
    THEN [j \in 1..Len(d) |-> IF d[j].key = k THEN [key |-> k, value |-> v] ELSE d[j]]
    ELSE Append(d, [key |-> k, value |-> v])

\* list(d.values())
DictValues(d) == [j \in 1..Len(d) |-> d[j].value]

\* A registry that keeps every registration, one after the other.
RegisterAppends(reg, tool) == Append(reg, [key |-> tool.name, value |-> tool])

\* ToolRegistry.register
Register(reg, tool) == DictSet(reg, tool.name, tool)

\* ToolRegistry.list_tools
ListTools(reg) == DictValues(reg)

\* BaseTool.get_description
GetDescription(tool) ==
    [name |-> tool.name, description |-> <<"description", tool.name, tool.id>>,
     parameters |-> <<"parameters", tool.name, tool.id>>]

\* ToolRegistry.get_descriptions
GetDescriptions(reg) == [j \in 1..Len(reg) |-> GetDescription(DictValues(reg)[j])]

RECURSIVE RegisterAll(_, _)
RegisterAll(reg, ts) ==
    IF ts = <<>> THEN reg ELSE RegisterAll(Register(reg, ts[1]), Tail(ts))

\* DataAnalysisAgent._register_tools: the six tools, in the order of lines 44-49
DefaultTools ==
    <<Tool("data_inspector", 1), Tool("sql_query", 1), Tool("data_visualization", 1),
      Tool("statistical_analysis", 1), Tool("data_profiling", 1),
      Tool("report_generator", 1)>>

\* ToolRegistry.get, on the registry of the agent
RegistryGet(name) == DictGet(tools, name)

\* ToolRegistry.execute, once the call has bound its arguments
RegistryExecute(name, outcome) ==
    IF RegistryGet(name) = Absent
    THEN [success |-> FALSE, result |-> <<"tool_not_found:", name>>,
          image_path |-> NoPath]
    ELSE SafeExecute(name, outcome)

\* What the tool behind `name` can do: nothing is invoked for an unknown name.
Outcomes(name, kwargs, n) ==
    IF RegistryGet(name) = Absent
    THEN {NotInvoked("unknown_tool")}
    ELSE ToolExecute(name, kwargs, n)

\* def execute(self, name, kwargs...): a keyword that repeats a positional parameter
\* of the method makes the call itself raise TypeError.
ExecuteParams == {"self", "name"}
CallBinds(kwargs) == kwargs.keys \cap ExecuteParams = {}

---------------------------------------------------------------------------
(* Plans the planner can return (core/llm_client.py, _parse_tool_plan) *)

AllKeys == {"tool", "args", "reason"}

SqlStep == Step(AllKeys, "sql_query", Dict([question |-> <<"sales by month">>]), "r_sql")
SqlNoQuestion == Step(AllKeys, "sql_query", EmptyDict, "r_sql_bare")
SqlWithContext ==
    Step(AllKeys, "sql_query",
         Dict([question |-> <<"top brands">>, context |-> <<"planner_context">>]),
         "r_sql_ctx")
VizStep == Step(AllKeys, "data_visualization", Dict([question |-> <<"trend chart">>]), "r_viz")
\* {"tool": "data_visualization", "args": {"sql": "SELECT ..."}, ...}
VizSqlStep ==
    Step(AllKeys, "data_visualization", Dict([sql |-> <<"SELECT day, total">>]), "r_viz_sql")
ReportStep == Step(AllKeys, "report_generator", EmptyDict, "r_report")
\* {"tool": "report_generator", "args": {"analysis_results": ""}, ...}
ReportEmptyStep ==
    Step(AllKeys, "report_generator", Dict([analysis_results |-> NoText]), "r_report_empty")
ReportSupplied ==
    Step(AllKeys, "report_generator",
         Dict([analysis_results |-> <<"planner_results">>,
               question |-> <<"planner_question">>]),
         "r_report_own")
ChatStep == Step(AllKeys, "general_chat", Dict([message |-> <<"hello">>]), "r_chat")
UnknownStep == Step(AllKeys, "no_such_tool", EmptyDict, "r_unknown")
\* {} : no tool, no args, no reason
BareStep == Step({}, "", EmptyDict, "")
\* {"tool": "data_profiling", "args": {"name": "orders"}, ...}
NameArgStep == Step(AllKeys, "data_profiling", Dict([name |-> <<"orders">>]), "r_name")
UnknownNameArgStep == Step(AllKeys, "no_such_tool", Dict([name |-> <<"orders">>]), "r_unknown_name")
\* {"tool": "sql_query", "args": null, ...}
NullArgsStep == Step(AllKeys, "sql_query", NotADict, "r_null")

StepUniverse ==
    {SqlStep, SqlNoQuestion, SqlWithContext, VizStep, VizSqlStep, ReportStep,
     ReportSupplied, ReportEmptyStep, ChatStep, UnknownStep, BareStep, NameArgStep,
     UnknownNameArgStep, NullArgsStep}

\* Steps whose execution has one outcome only; long plans are padded with them.
PadSteps == {SqlNoQuestion, ChatStep, UnknownStep}

SeqsUpTo(S, n) == UNION {[1..k -> S] : k \in 0..n}

Repeat(x, k) == [j \in 1..k |-> x]

\* Every plan of at most MaxVaried steps.
ShortPlans == SeqsUpTo(StepUniverse, MaxVaried)

\* One step of any kind at any position of an otherwise uniform plan of at most
\* MaxPlanLen steps.
LongPlans ==
    {Repeat(pad, before) \o <<s>> \o Repeat(pad, after) :
        <<pad, s, before, after>> \in
            {t \in PadSteps \X StepUniverse \X (0..MaxPlanLen) \X (0..MaxPlanLen) :
                t[3] + t[4] + 1 <= MaxPlanLen}}

Plans == ShortPlans \cup LongPlans

\* The plans of a session of several queries.
SessionPlans ==
    {<< >>, <<ChatStep>>, <<ReportStep>>, <<SqlStep>>, <<VizStep, ReportStep>>,
     <<SqlStep, ReportStep>>, <<SqlStep, ReportSupplied>>,
     <<ChatStep, SqlStep, ReportStep>>, <<SqlStep, UnknownStep, ReportStep>>,
     <<NullArgsStep>>, <<SqlStep, NameArgStep>>}

---------------------------------------------------------------------------
(* core/llm_client.py: chat, plan_tools and _parse_tool_plan *)

\* The answer of the model is a text of tokens: the two fence markers (three
\* backquotes, with the tag json or without), the two brackets, the text of a JSON object, a JSON number, and a word that is part of
\* no JSON text.  White space and the commas between the elements of an array are
\* not tokens, and the text of an object holds no fence and no bracket.
FenceJson == "fence_json"
Fence == "fence"
Open == "["
Close == "]"
ObjSql == "{sql_query}"
ObjChat == "{general_chat}"
Number == "1"
Word == "word"

\* the three backquotes are a substring of both markers
Fences == {Fence, FenceJson}
ObjectTokens == {ObjSql, ObjChat}
ValueTokens == ObjectTokens \cup {Number}

\* message.content of the completion (line 77): a str or None
Str(text) == [kind |-> "str", text |-> text]
None == [kind |-> "None", text |-> <<>>]
NoResponse == [kind |-> "unasked", text |-> <<>>]

\* The values json.loads returns: an object is a step, anything else is not.
JsonObject(step) == [type |-> "object", step |-> step]
JsonOther(type) == [type |-> type, step |-> BareStep]
ValueOf(tok) ==
    IF tok = ObjSql THEN JsonObject(SqlStep)
    ELSE IF tok = ObjChat THEN JsonObject(ChatStep)
    ELSE JsonOther("number")

FirstIndex(t, S) ==
    IF \E k \in 1..Len(t) : t[k] \in S
    THEN CHOOSE k \in 1..Len(t) : t[k] \in S /\ \A j \in 1..(k - 1) : t[j] \notin S
    ELSE 0

LastIndex(t, S) ==
    IF \E k \in 1..Len(t) : t[k] \in S
    THEN CHOOSE k \in 1..Len(t) : t[k] \in S /\ \A j \in (k + 1)..Len(t) : t[j] \notin S
    ELSE 0

\* text.split(sep, 1)[1] and text.split(sep, 1)[0], sep being one of S
AfterFirst(t, S) == SubSeq(t, FirstIndex(t, S) + 1, Len(t))
BeforeFirst(t, S) == SubSeq(t, 1, FirstIndex(t, S) - 1)

\* Position of the bracket that closes the array open at position k, 0 if none.
RECURSIVE Matching(_, _, _)
Matching(t, k, depth) ==
    IF k > Len(t) THEN 0
    ELSE IF t[k] = Open THEN Matching(t, k + 1, depth + 1)
    ELSE IF t[k] = Close
         THEN IF depth = 1 THEN k ELSE Matching(t, k + 1, depth - 1)
    ELSE Matching(t, k + 1, depth)

JsonError == [ok |-> FALSE, items |-> <<>>]

\* The elements between the brackets of an array.
RECURSIVE Elements(_)
Elements(t) ==
    IF t = <<>> THEN [ok |-> TRUE, items |-> <<>>]
    ELSE IF t[1] \in ValueTokens
         THEN LET rest == Elements(Tail(t))
              IN  [ok |-> rest.ok, items |-> <<ValueOf(t[1])>> \o rest.items]
    ELSE IF t[1] = Open /\ Matching(t, 2, 1) # 0
         THEN LET m == Matching(t, 2, 1)
                  inner == Elements(SubSeq(t, 2, m - 1))
                  rest == Elements(SubSeq(t, m + 1, Len(t)))
              IN  [ok |-> inner.ok /\ rest.ok,
                   items |-> <<JsonOther("array")>> \o rest.items]
    ELSE JsonError

\* json.loads followed by lines 145-147: a list is returned as it is, any other
\* value as the list of that one value.  ok is FALSE for JSONDecodeError.
JsonLoads(t) ==
    IF Len(t) = 1 /\ t[1] \in ValueTokens
    THEN [ok |-> TRUE, items |-> <<ValueOf(t[1])>>]
    ELSE IF t # <<>> /\ t[1] = Open /\ Matching(t, 2, 1) = Len(t)
         THEN Elements(SubSeq(t, 2, Len(t) - 1))
    ELSE JsonError

\* lines 139-142: the text after the first tagged fence, then before the first
\* fence of either kind
Unfenced(t) ==
    LET tagged == IF FirstIndex(t, {FenceJson}) # 0 THEN AfterFirst(t, {FenceJson})
                  ELSE t
    IN  IF FirstIndex(tagged, Fences) # 0 THEN BeforeFirst(tagged, Fences)
        ELSE tagged

\* line 152, re.search over the whole answer, greedy: from the first opening
\* bracket to the last closing one, nothing when no closing one follows
BracketSpan(t) ==
    LET a == FirstIndex(t, {Open})
        b == LastIndex(t, {Close})
    IN  IF a # 0 /\ b > a THEN SubSeq(t, a, b) ELSE <<>>

\* A fallback that gives up with an empty plan.
EmptyFallback(text) == <<>>

\* line 157: the whole answer becomes the message of one general_chat step
FallbackPlan(text) ==
    <<JsonObject(Step(AllKeys, "general_chat", Dict([message |-> text]), "parse_failed"))>>

NotParsed == [outcome |-> "unset", plan |-> <<>>]
ParseReturns(items) == [outcome |-> "returned", plan |-> items]
ParseRaises == [outcome |-> "raised", plan |-> <<>>]

\* A parser that keeps the first element only.
ParseFirstOnly(r) ==
    IF r.kind # "str" THEN ParseRaises
    ELSE LET strict == JsonLoads(Unfenced(r.text))
         IN  IF strict.ok
             THEN ParseReturns(IF strict.items = <<>> THEN <<>>
                               ELSE <<strict.items[1]>>)
             ELSE ParseReturns(FallbackPlan(r.text))

\* LLMClient._parse_tool_plan: None has no strip (line 138, AttributeError, which
\* the handler of line 148 does not catch); strict parse of the unfenced text;
\* then the bracket span of the whole answer; then the fallback.
ParseToolPlan(r) ==
    IF r.kind # "str" THEN ParseRaises
    ELSE LET strict == JsonLoads(Unfenced(r.text))
             loose == JsonLoads(BracketSpan(r.text))
         IN  IF strict.ok THEN ParseReturns(strict.items)
             ELSE IF loose.ok THEN ParseReturns(loose.items)
             ELSE ParseReturns(FallbackPlan(r.text))

\* A plan the loop of process_query can iterate: every element is a mapping.
WellFormed(items) == \A k \in 1..Len(items) : items[k].type = "object"
StepsOf(items) == [k \in 1..Len(items) |-> items[k].step]

\* The answers of the model: a body, fenced or not, within prose or not.
Arrays ==
    {<<Open>> \o items \o <<Close>> : items \in SeqsUpTo(ValueTokens, MaxElems)}
        \cup {<<Open, Open, ObjSql, Close, Close>>}
Bodies ==
    Arrays \cup {<<v>> : v \in ValueTokens}
           \cup {<< >>, <<Word>>, <<Word, Word>>, <<Word, Open, Word, Close>>,
                 <<Word, Open, Number, Close>>, <<Close, Word, Open>>, <<Open, ObjSql>>}
ProseBefore == {<< >>, <<Word>>, <<Word, Open, Word, Close>>}
ProseAfter == {<< >>, <<Word>>, <<Open, Number, Close>>}
OpeningFences == {<< >>, <<Fence>>, <<FenceJson>>}
ClosingFences == {<< >>, <<Fence>>}
Texts ==
    {t[1] \o t[2] \o t[3] \o t[4] \o t[5] :
        t \in ProseBefore \X OpeningFences \X Bodies \X ClosingFences \X ProseAfter}
Responses == {Str(t) : t \in Texts} \cup {None}

---------------------------------------------------------------------------
(* agent/data_agent.py: the pieces of process_query *)

Min(a, b) == IF a <= b THEN a ELSE b

\* the plan is iterated whole
UncappedPlan(p) == p

\* plan[:MAX_STEPS]
CappedPlan(p) == SubSeq(p, 1, Min(Len(p), MAX_STEPS))

\* the sentinel is misspelt
MissesGeneralChat(p) ==
    Len(p) = 1 /\ "tool" \in p[1].has /\ p[1].tool = "chat"

\* len(plan) == 1 and plan[0].get("tool") == "general_chat"
IsGeneralChatPlan(p) ==
    Len(p) = 1 /\ "tool" \in p[1].has /\ p[1].tool = "general_chat"

\* accumulated_context = ""
InitialContext(hist) == NoText

\* plain assignments in place of the two setdefaults
OverwriteReportArgs(tool_name, args, ctx, query) ==
    IF tool_name = "report_generator" /\ ctx # NoText
    THEN [args EXCEPT !.keys = @ \cup {"analysis_results", "question"},
                      !.val["analysis_results"] = ctx,
                      !.val["question"] = query]
    ELSE args

\* if tool_name == "report_generator" and accumulated_context: two setdefaults
InjectReportDefaults(tool_name, args, ctx, query) ==
    IF tool_name = "report_generator" /\ ctx # NoText
    THEN SetDefault(SetDefault(args, "analysis_results", ctx), "question", query)
    ELSE args

\* the history is written over whatever the planner gave
OverwritesContext(args, hist) ==
    [args EXCEPT !.keys = @ \cup {"context"}, !.val["context"] = hist]

\* if "context" not in args: args["context"] = history
WithContext(args, hist) ==
    IF "context" \notin args.keys
    THEN [args EXCEPT !.keys = @ \cup {"context"}, !.val["context"] = hist]
    ELSE args

\* the keyword arguments the step is called with
CallArgs(step, ctx, query, hist) ==
    WithContext(InjectReportDefaults(StepTool(step), StepArgs(step), ctx, query), hist)

\* result["tool"] = tool_name; result["reason"] = reason
Decorate(result, tool_name, reason) ==
    [success |-> result.success, result |-> result.result,
     image_path |-> result.image_path, tool |-> tool_name, reason |-> reason]

\* tool_results.insert(0, result)
PrependResult(results, result) == <<result>> \o results

\* tool_results.append(result)
RecordResult(results, result) == Append(results, result)

\* the path is appended without the test
CollectEveryPath(imgs, result) == Append(imgs, result.image_path)

\* if result.get("image_path"): images.append(result["image_path"])
CollectImage(imgs, result) ==
    IF result.image_path # NoPath THEN Append(imgs, result.image_path) ELSE imgs

\* f"\n\n### {tool_name} ({reason})\n{result_text}"
DigestEntry(tool_name, reason, text) ==
    <<"\n\n### ", tool_name, " (", reason, ")\n">> \o text

\* accumulated_context += ...
ExtendContext(ctx, result) ==
    ctx \o DigestEntry(result.tool, result.reason, result.result)

\* the final answer is always a summary
AlwaysSummarise(results) == "summarise_results"

\* if tool_results: summarise_results(...) else: general_chat(...)
FinalCall(results) ==
    IF results # <<>> THEN "summarise_results" ELSE "general_chat"

\* The text the language model answers with.
LlmAnswer(call, query) == <<call>> \o query

GeneralMetadata ==
    [keys |-> {"type"}, type |-> "general", tools_used |-> <<>>, images |-> <<>>]

AnalysisMetadata(results, imgs) ==
    [keys |-> {"type", "tools_used", "images"}, type |-> "analysis",
     tools_used |-> [k \in 1..Len(results) |-> results[k].tool],
     images |-> imgs]

NoResult == [success |-> FALSE, result |-> NoText, image_path |-> NoPath]
NoReturn == [returned |-> FALSE, response |-> NoText, tool_results |-> <<>>, images |-> <<>>]
Returned(response, results, imgs) ==
    [returned |-> TRUE, response |-> response, tool_results |-> results, images |-> imgs]

---------------------------------------------------------------------------
(* agent/data_agent.py: process_query, one action per stretch of its code *)

\* A call of a method of the context.
Call(method, role, content) == [method |-> method, role |-> role, content |-> content]
Called(method) == Call(method, "", NoText)

\* The context the agent's methods work on, and its replacement by their result.
Ctx == Context(messages, max_history, current_session_id, session_start_time)

ContextBecomes(c) ==
    /\ messages' = c.messages
    /\ max_history' = c.max_history
    /\ current_session_id' = c.current_session_id
    /\ session_start_time' = c.session_start_time

\* add_message starts a session when there is none, and drops turns at the head
AddTurn(role, content, metadata) ==
    /\ ContextBecomes(AddMessage(Ctx, role, content, metadata, now))
    /\ created' = IF current_session_id = NoSession
                  THEN Append(created, current_session_id')
                  ELSE created
    /\ evicted' = LET held == EnsureSession(Ctx, now).messages
                  IN  SubSeq(held, 1, Len(held) + 1 - Len(messages'))

\* No second call is in flight.
NotStarted == [pc |-> "idle", user_query |-> NoText, history |-> NoText]

\* An agent whose context keeps at most maxh turns and whose registry has had the
\* tools ts registered, before its first query.
InitOf(maxh, ts) ==
    /\ tools = RegisterAll(<<>>, ts)
    /\ registered = ts
    /\ concurrent = NotStarted
    /\ messages = NewContext(maxh).messages
    /\ max_history = NewContext(maxh).max_history
    /\ current_session_id = NewContext(maxh).current_session_id
    /\ session_start_time = NewContext(maxh).session_start_time
    /\ now = 0
    /\ created = <<>>
    /\ evicted = <<>>
    /\ called = Called("__init__")
    /\ window_size = WindowSize
    /\ planner_response = NoResponse
    /\ parsed = NotParsed
    /\ pc = "idle"
    /\ user_query = NoText
    /\ history = NoText
    /\ plan = <<>>
    /\ i = 1
    /\ tool_results = <<>>
    /\ images = <<>>
    /\ accumulated_context = NoText
    /\ pending = NoResult
    /\ retval = NoReturn
    /\ execLog = <<>>
    /\ llmCalls = <<>>
    /\ charts = 0
    /\ asked = {}
    /\ error = "None"

\* agent/data_agent.py, lines 31-38: the agent as its constructor leaves it
InitWith(maxh) == InitOf(maxh, DefaultTools)

\* agent/data_agent.py:34, DialogueContext() with the default max_history
Init == InitWith(MaxHistory)

InLoop == pc = "loop" /\ i <= Len(CappedPlan(plan))
CurStep == CappedPlan(plan)[i]
CurArgs == CallArgs(CurStep, accumulated_context, user_query, history)

\* lines 64-67: a new call appends the user turn and fetches the history
ProcessQuery(Q) ==
    /\ UNCHANGED otherVars
    /\ pc \in {"idle", "done", "raised"}
    /\ \E q \in Q \ asked :
        /\ asked' = asked \cup {q}
        /\ user_query' = <<q>>
        /\ AddTurn("user", <<q>>, NoMetadata)
        /\ called' = Called("get_formatted_history")
        /\ window_size' = WindowSize
        /\ history' = FormattedHistory(messages', window_size')
    /\ pc' = "planning"
    /\ plan' = <<>>
    /\ i' = 1
    /\ tool_results' = <<>>
    /\ images' = <<>>
    /\ accumulated_context' = NoText
    /\ pending' = NoResult
    /\ retval' = NoReturn
    /\ execLog' = <<>>
    /\ llmCalls' = <<>>
    /\ error' = "None"
    /\ planner_response' = NoResponse
    /\ parsed' = NotParsed
    /\ UNCHANGED <<charts, now>>

\* A handler that would turn the failure into an apology and return it.
DegradedAnswer(c, t) ==
    [context |-> AddMessage(c, "assistant", <<"apology">>, NoMetadata, t),
     retval |-> Returned(<<"apology">>, <<>>, <<>>),
     pc |-> "done", error |-> "None"]

\* A handler that would take the user turn back before the exception leaves.
RolledBack(c, t) ==
    [context |-> [c EXCEPT !.messages = SubSeq(@, 1, Len(@) - 1)],
     retval |-> NoReturn, pc |-> "raised", error |-> "LLMError"]

\* lines 70-82 and 118-133 have no handler: an exception of llm.plan_tools,
\* llm.general_chat or llm.summarise_results leaves process_query at once, with
\* the context untouched and nothing returned
OnLlmError(c, t) ==
    [context |-> c, retval |-> NoReturn, pc |-> "raised", error |-> "LLMError"]

LlmCallRaised ==
    LET after == OnLlmError(Ctx, now)
    IN  /\ ContextBecomes(after.context)
        /\ UNCHANGED otherVars
        /\ created' = created
        /\ evicted' = evicted
        /\ called' = called
        /\ retval' = after.retval
        /\ pc' = after.pc
        /\ error' = after.error

\* lines 70-76: the planner returns a plan
PlanTools(PS) ==
    /\ UNCHANGED otherVars
    /\ pc = "planning"
    /\ \E p \in PS : plan' = p
    /\ llmCalls' = Append(llmCalls, "plan_tools")
    /\ pc' = "planned"
    /\ UNCHANGED <<sessionVars, plannerVars, now, window_size>>
    /\ UNCHANGED <<messages, user_query, history, i, tool_results, images,
                   accumulated_context, pending, retval, execLog, charts, asked, error>>

\* lines 70-75: the language-model call of the planner raises
PlanToolsRaises ==
    /\ pc = "planning"
    /\ llmCalls' = llmCalls \o <<"plan_tools", "raised">>
    /\ LlmCallRaised
    /\ UNCHANGED <<plannerVars, now, window_size, user_query, history, plan, i,
                   tool_results, images, accumulated_context, pending, execLog, charts,
                   asked>>

\* llm_client.py, lines 132-133: the model answers r and the answer is parsed
PlanToolsAnswers(r) ==
    /\ UNCHANGED otherVars
    /\ pc = "planning"
    /\ planner_response' = r
    /\ parsed' = ParseToolPlan(r)
    /\ llmCalls' = Append(llmCalls, "plan_tools")
    /\ UNCHANGED <<sessionVars, now, window_size>>
    /\ UNCHANGED <<messages, user_query, history, i, tool_results, images,
                   accumulated_context, pending, retval, execLog, charts, asked>>

\* the parser returns a list of mappings, which process_query holds as its plan
PlanToolsParses ==
    /\ pc = "planning"
    /\ \E r \in Responses :
        /\ ParseToolPlan(r).outcome = "returned"
        /\ WellFormed(ParseToolPlan(r).plan)
        /\ PlanToolsAnswers(r)
    /\ plan' = StepsOf(parsed'.plan)
    /\ pc' = "planned"
    /\ error' = error

\* the parser raises, and with it plan_tools and process_query
PlanToolsParseRaises ==
    /\ pc = "planning"
    /\ \E r \in Responses :
        /\ ParseToolPlan(r).outcome = "raised"
        /\ PlanToolsAnswers(r)
    /\ pc' = "raised"
    /\ error' = "AttributeError"
    /\ plan' = plan

\* the parser returns a list with an element that is no mapping
PlanToolsMalformed ==
    /\ pc = "planning"
    /\ \E r \in Responses :
        /\ ParseToolPlan(r).outcome = "returned"
        /\ ~WellFormed(ParseToolPlan(r).plan)
        /\ PlanToolsAnswers(r)
    /\ pc' = "malformed"
    /\ error' = error
    /\ plan' = plan

\* data_agent.py, lines 79 and 90: plan[0].get or step.get on a first element that
\* is no mapping raises AttributeError before anything is executed.  (When the
\* offending element comes later, the steps before it run first; that run is not
\* followed here.)
MalformedPlanRaises ==
    /\ UNCHANGED otherVars
    /\ pc = "malformed"
    /\ parsed.plan[1].type # "object"
    /\ pc' = "raised"
    /\ error' = "AttributeError"
    /\ UNCHANGED <<sessionVars, plannerVars, now, window_size>>
    /\ UNCHANGED <<messages, user_query, history, plan, i, tool_results, images,
                   accumulated_context, pending, retval, execLog, llmCalls, charts,
                   asked>>

\* lines 79-82: the general-chat short circuit
GeneralChatShortCircuit ==
    /\ UNCHANGED otherVars
    /\ pc = "planned"
    /\ IsGeneralChatPlan(plan)
    /\ llmCalls' = Append(llmCalls, "general_chat")
    /\ LET answer == LlmAnswer("general_chat", user_query)
       IN  /\ AddTurn("assistant", answer, GeneralMetadata)
           /\ called' = Call("add_message", "assistant", answer)
           /\ retval' = Returned(answer, <<>>, <<>>)
    /\ pc' = "done"
    /\ UNCHANGED <<plannerVars, now, window_size, user_query, history, plan, i,
                   tool_results, images, accumulated_context, pending, execLog, charts,
                   asked, error>>

\* line 80: the language-model call of the short circuit raises
GeneralChatRaises ==
    /\ pc = "planned"
    /\ IsGeneralChatPlan(plan)
    /\ llmCalls' = llmCalls \o <<"general_chat", "raised">>
    /\ LlmCallRaised
    /\ UNCHANGED <<plannerVars, now, window_size, user_query, history, plan, i,
                   tool_results, images, accumulated_context, pending, execLog, charts,
                   asked>>

\* lines 85-89: the locals of the step loop
BeginExecution ==
    /\ UNCHANGED otherVars
    /\ pc = "planned"
    /\ ~IsGeneralChatPlan(plan)
    /\ tool_results' = <<>>
    /\ images' = <<>>
    /\ accumulated_context' = InitialContext(history)
    /\ i' = 1
    /\ pc' = "loop"
    /\ UNCHANGED <<sessionVars, plannerVars, now, window_size>>
    /\ UNCHANGED <<messages, user_query, history, plan, pending, retval,
                   execLog, llmCalls, charts, asked, error>>

\* lines 94-95: a general_chat step of a mixed plan is skipped
SkipStep ==
    /\ UNCHANGED otherVars
    /\ InLoop
    /\ StepTool(CurStep) = "general_chat"
    /\ i' = i + 1
    /\ UNCHANGED <<sessionVars, plannerVars, now, window_size>>
    /\ UNCHANGED <<messages, pc, user_query, history, plan, tool_results, images,
                   accumulated_context, pending, retval, execLog, llmCalls,
                   charts, asked, error>>

\* lines 97-105: args that are no dict raise before registry.execute is entered
PrepareRaises ==
    /\ UNCHANGED otherVars
    /\ InLoop
    /\ StepTool(CurStep) # "general_chat"
    /\ StepArgs(CurStep).kind # "dict"
    /\ pc' = "raised"
    /\ error' = "TypeError"
    /\ UNCHANGED <<sessionVars, plannerVars, now, window_size>>
    /\ UNCHANGED <<messages, user_query, history, plan, i, tool_results, images,
                   accumulated_context, pending, retval, execLog, llmCalls,
                   charts, asked>>

\* One registry.execute call: what it was given, whether the call itself raised,
\* and what the tool behind it did.
LogCall(raised, outcome) ==
    Append(execLog, [idx |-> i, name |-> StepTool(CurStep),
                     given |-> StepArgs(CurStep), kwargs |-> CurArgs,
                     raised |-> raised, recorded |-> Len(tool_results),
                     digest |-> accumulated_context,
                     cause |-> outcome.cause, effects |-> outcome.effects,
                     tool_raised |-> outcome.raised,
                     failure |-> IF outcome.raised THEN outcome.value.result
                                 ELSE NoText])

\* args.setdefault and args["context"] = ... write into the step's own dict
PlanAfterCall ==
    IF "args" \in CurStep.has THEN [plan EXCEPT ![i].args = CurArgs] ELSE plan

\* line 105: the call cannot bind its keyword arguments and raises TypeError
CallRaises ==
    /\ UNCHANGED otherVars
    /\ InLoop
    /\ StepTool(CurStep) # "general_chat"
    /\ StepArgs(CurStep).kind = "dict"
    /\ ~CallBinds(CurArgs)
    /\ execLog' = LogCall(TRUE, NotInvoked("unbound"))
    /\ plan' = PlanAfterCall
    /\ pc' = "raised"
    /\ error' = "TypeError"
    /\ UNCHANGED <<sessionVars, plannerVars, now, window_size>>
    /\ UNCHANGED <<messages, user_query, history, i, tool_results, images,
                   accumulated_context, pending, retval, llmCalls, charts, asked>>

\* lines 97-105: registry.execute runs the step and returns its result
ExecuteStep ==
    /\ UNCHANGED otherVars
    /\ InLoop
    /\ StepTool(CurStep) # "general_chat"
    /\ StepArgs(CurStep).kind = "dict"
    /\ CallBinds(CurArgs)
    /\ \E o \in Outcomes(StepTool(CurStep), CurArgs, charts) :
        /\ pending' = RegistryExecute(StepTool(CurStep), o)
        /\ charts' = IF pending'.image_path # NoPath THEN charts + 1 ELSE charts
        /\ execLog' = LogCall(FALSE, o)
    /\ plan' = PlanAfterCall
    /\ pc' = "executed"
    /\ UNCHANGED <<sessionVars, plannerVars, now, window_size>>
    /\ UNCHANGED <<messages, user_query, history, i, tool_results, images,
                   accumulated_context, retval, llmCalls, asked, error>>

\* lines 107-115: the result is decorated and recorded
RecordStep ==
    /\ UNCHANGED otherVars
    /\ pc = "executed"
    /\ LET step == CappedPlan(plan)[i]
           result == Decorate(pending, StepTool(step), StepReason(step))
       IN  /\ tool_results' = RecordResult(tool_results, result)
           /\ images' = CollectImage(images, result)
           /\ accumulated_context' = ExtendContext(accumulated_context, result)
    /\ pending' = NoResult
    /\ i' = i + 1
    /\ pc' = "loop"
    /\ UNCHANGED <<sessionVars, plannerVars, now, window_size>>
    /\ UNCHANGED <<messages, user_query, history, plan, retval, execLog,
                   llmCalls, charts, asked, error>>

\* lines 118-139: the final answer, the assistant turn and the return
Synthesise ==
    /\ UNCHANGED otherVars
    /\ pc = "loop"
    /\ i > Len(CappedPlan(plan))
    /\ LET call == FinalCall(tool_results)
           answer == LlmAnswer(call, user_query)
       IN  /\ llmCalls' = Append(llmCalls, call)
           /\ AddTurn("assistant", answer, AnalysisMetadata(tool_results, images))
           /\ called' = Call("add_message", "assistant", answer)
           /\ retval' = Returned(answer, tool_results, images)
    /\ pc' = "done"
    /\ UNCHANGED <<plannerVars, now, window_size, user_query, history, plan, i,
                   tool_results, images, accumulated_context, pending, execLog, charts,
                   asked, error>>

\* lines 118-123: the language-model call of the final answer raises
SynthesiseRaises ==
    /\ pc = "loop"
    /\ i > Len(CappedPlan(plan))
    /\ llmCalls' = llmCalls \o <<FinalCall(tool_results), "raised">>
    /\ LlmCallRaised
    /\ UNCHANGED <<plannerVars, now, window_size, user_query, history, plan, i,
                   tool_results, images, accumulated_context, pending, execLog, charts,
                   asked>>

Steps ==
    \/ PlanToolsRaises
    \/ GeneralChatShortCircuit
    \/ GeneralChatRaises
    \/ BeginExecution
    \/ SkipStep
    \/ PrepareRaises
    \/ CallRaises
    \/ ExecuteStep
    \/ RecordStep
    \/ Synthesise
    \/ SynthesiseRaises

\* One query, any plan.
Next == ProcessQuery(MainQueries) \/ PlanTools(Plans) \/ Steps

Spec == Init /\ [][Next]_vars

\* A session of several queries.
NextSession == ProcessQuery(Queries) \/ PlanTools(SessionPlans) \/ Steps

SpecSession == Init /\ [][NextSession]_vars

\* One query whose plan is parsed from the answer of the model.  The answers hold
\* no step that makes the preparation or the call of a tool raise.
NextParser ==
    \/ ProcessQuery(MainQueries)
    \/ PlanToolsParses
    \/ PlanToolsParseRaises
    \/ PlanToolsMalformed
    \/ MalformedPlanRaises
    \/ PlanToolsRaises
    \/ GeneralChatShortCircuit
    \/ GeneralChatRaises
    \/ BeginExecution
    \/ SkipStep
    \/ ExecuteStep
    \/ RecordStep
    \/ Synthesise
    \/ SynthesiseRaises

SpecParser == Init /\ [][NextParser]_vars

---------------------------------------------------------------------------
(* core/dialogue_context.py: a DialogueContext used through its own methods *)

Roles == {"user", "assistant"}
Contents == {<<"x">>, <<"y">>}

\* The agent does not move while the context is exercised.
AgentIdle ==
    UNCHANGED <<pc, user_query, plan, i, tool_results, images, accumulated_context,
                pending, retval, execLog, llmCalls, charts, asked, error, plannerVars,
                otherVars>>

\* add_message(role, content)
ContextAddMessage(Rs, Cs) ==
    /\ Len(messages) <= MaxCap
    /\ current_session_id # NoSession \/ Len(created) < MaxSessions
    /\ \E role \in Rs, content \in Cs :
        /\ AddTurn(role, content, NoMetadata)
        /\ called' = Call("add_message", role, content)
    /\ history' = NoText
    /\ UNCHANGED <<now, window_size>>
    /\ AgentIdle

\* clear_context()
ContextClear ==
    /\ ContextBecomes(ClearContext(Ctx))
    /\ history' = NoText
    /\ evicted' = <<>>
    /\ called' = Called("clear_context")
    /\ UNCHANGED <<created, now, window_size>>
    /\ AgentIdle

\* start_new_session()
ContextStartNewSession ==
    /\ Len(created) < MaxSessions
    /\ ContextBecomes(StartNewSession(Ctx, now))
    /\ created' = Append(created, current_session_id')
    /\ evicted' = <<>>
    /\ called' = Called("start_new_session")
    /\ history' = NoText
    /\ UNCHANGED <<now, window_size>>
    /\ AgentIdle

\* get_formatted_history(n); `history` holds what the latest call returned
ContextGetFormattedHistory ==
    /\ \E n \in 0..MaxWindow :
        /\ window_size' = n
        /\ history' = FormattedHistory(messages, n)
    /\ called' = Called("get_formatted_history")
    /\ UNCHANGED <<messages, max_history, current_session_id, session_start_time,
                   created, evicted, now>>
    /\ AgentIdle

\* time passes
Tick ==
    /\ now < MaxTime
    /\ now' = now + 1
    /\ UNCHANGED <<messages, sessionVars, history, window_size>>
    /\ AgentIdle

InitContext == \E maxh \in 0..MaxCap : InitWith(maxh)

\* Turns of every kind, within one clock reading.
NextContext ==
    \/ ContextAddMessage(Roles, Contents)
    \/ ContextClear
    \/ ContextStartNewSession
    \/ ContextGetFormattedHistory

SpecContext == InitContext /\ [][NextContext]_vars

\* Sessions over time, with turns of one kind.
NextSessions ==
    \/ ContextAddMessage({"user"}, {<<"x">>})
    \/ ContextClear
    \/ ContextStartNewSession
    \/ Tick

SpecSessions == InitContext /\ [][NextSessions]_vars

---------------------------------------------------------------------------
(* agent/data_agent.py and app.py: calls that run while a query is in flight *)

\* app.py builds one agent (line 17) that every callback uses, and process_query
\* takes no lock: a second call may start, touch the context and end at any point
\* of the first.  The second call is followed through its accesses to the context
\* only (lines 66-67 and 125-133); its plan is a conversational one, so that it
\* runs no tool.
FirstCallWaits ==
    UNCHANGED <<pc, user_query, history, plan, i, tool_results, images,
                accumulated_context, pending, retval, execLog, llmCalls, charts,
                error, plannerVars, window_size, now, tools, registered>>

\* lines 64-67 of the second call: its user turn and its history
ConcurrentProcessQuery(Q) ==
    /\ concurrent.pc = "idle"
    /\ \E q \in Q \ asked :
        /\ asked' = asked \cup {q}
        /\ AddTurn("user", <<q>>, NoMetadata)
        /\ called' = Called("get_formatted_history")
        /\ concurrent' = [pc |-> "running", user_query |-> <<q>>,
                          history |-> FormattedHistory(messages', WindowSize)]
    /\ FirstCallWaits

\* lines 79-82 or 118-139 of the second call: its answer, its assistant turn
ConcurrentReturns ==
    /\ concurrent.pc = "running"
    /\ \E metadata \in {GeneralMetadata, AnalysisMetadata(<<>>, <<>>)} :
        LET answer == LlmAnswer("general_chat", concurrent.user_query)
        IN  /\ AddTurn("assistant", answer, metadata)
            /\ called' = Call("add_message", "assistant", answer)
    /\ concurrent' = [concurrent EXCEPT !.pc = "done"]
    /\ asked' = asked
    /\ FirstCallWaits

\* a language-model call of the second call raises
ConcurrentRaises ==
    /\ concurrent.pc = "running"
    /\ concurrent' = [concurrent EXCEPT !.pc = "raised"]
    /\ UNCHANGED <<messages, sessionVars, asked>>
    /\ FirstCallWaits

\* Two calls on the one agent.
NextConcurrent ==
    \/ NextSession
    \/ ConcurrentProcessQuery(Queries)
    \/ ConcurrentReturns
    \/ ConcurrentRaises

SpecConcurrent == Init /\ [][NextConcurrent]_vars

\* DataAnalysisAgent.clear_context (data_agent.py, lines 144-145), called by
\* on_clear of app.py at any point of a process_query call, whose locals it
\* leaves alone
AgentClearContext ==
    /\ ContextBecomes(ClearContext(Ctx))
    /\ evicted' = <<>>
    /\ called' = Called("clear_context")
    /\ UNCHANGED <<created, concurrent, asked>>
    /\ FirstCallWaits

\* A session of several queries with the clear button at hand.
NextClear == NextSession \/ AgentClearContext

SpecClear == Init /\ [][NextClear]_vars

---------------------------------------------------------------------------
(* agent/tool_registry.py: a ToolRegistry used through its own methods *)

ToolNames == {"sql_query", "report_generator", "custom_tool"}

\* The tool objects a caller may register: several objects may declare one name.
ToolObjects == {Tool(name, id) : name \in ToolNames, id \in 1..MaxObjects}

RegistryOnly ==
    UNCHANGED <<messages, sessionVars, now, window_size, history, concurrent, pc,
                user_query, plan, i, tool_results, images, accumulated_context, retval,
                execLog, llmCalls, charts, asked, error, plannerVars>>

\* register(tool)
RegistryRegister ==
    /\ Len(registered) < MaxRegistrations
    /\ \E tool \in ToolObjects :
        /\ tools' = Register(tools, tool)
        /\ registered' = Append(registered, tool)
    /\ pending' = pending
    /\ RegistryOnly

\* execute(name) without keyword arguments, for a name registered or not
RegistryExecuteCall ==
    /\ \E name \in ToolNames \cup {"no_such_tool"} :
        \E o \in Outcomes(name, EmptyDict, charts) :
            pending' = RegistryExecute(name, o)
    /\ UNCHANGED <<tools, registered>>
    /\ RegistryOnly

\* ToolRegistry.__init__: no tool yet
InitRegistry == InitOf(MaxHistory, <<>>)

NextRegistry == RegistryRegister \/ RegistryExecuteCall

SpecRegistry == InitRegistry /\ [][NextRegistry]_vars

---------------------------------------------------------------------------
(* Properties *)

\* The positions of the capped plan whose tool is not general_chat.
Executable(p) ==
    {k \in 1..Len(CappedPlan(p)) : StepTool(CappedPlan(p)[k]) # "general_chat"}

\* The digest of a list of recorded results: one entry per result, in order.
RECURSIVE DigestOf(_)
DigestOf(rs) ==
    IF rs = <<>> THEN NoText
    ELSE LET r == rs[Len(rs)]
         IN  DigestOf(SubSeq(rs, 1, Len(rs) - 1))
             \o <<"\n\n### ", r.tool, " (", r.reason, ")\n">> \o r.result

\* The artifact paths of the results that carry one, in order.
RECURSIVE PathsOf(_)
PathsOf(rs) ==
    IF rs = <<>> THEN <<>>
    ELSE (IF rs[1].image_path # NoPath THEN <<rs[1].image_path>> ELSE <<>>)
         \o PathsOf(Tail(rs))

FinalCalls ==
    SelectSeq(llmCalls, LAMBDA c : c \in {"general_chat", "summarise_results"})

LastMessage == messages[Len(messages)]

\* The plan is one general_chat step.
ChatOnlyPlan == Len(plan) = 1 /\ StepTool(plan[1]) = "general_chat"

\* C1: a registry.execute call that names a registered tool never raises,
\* whatever keyword arguments it is given, and returns a result with a boolean
\* success flag and a text.
C1_RegisteredExecuteNeverRaises ==
    /\ \A k \in 1..Len(execLog) :
          execLog[k].name \in RegisteredTools => ~execLog[k].raised
    /\ (pc = "executed" /\ execLog[Len(execLog)].name \in RegisteredTools)
          => /\ pending.success \in BOOLEAN
             /\ DOMAIN pending.result = 1..Len(pending.result)

\* C2: a registry.execute call that names an unregistered tool (the empty name
\* included) never raises and returns success = false with a non-empty text.
C2_UnknownToolFailsWithoutRaising ==
    /\ \A k \in 1..Len(execLog) :
          execLog[k].name \notin RegisteredTools => ~execLog[k].raised
    /\ (pc = "executed" /\ execLog[Len(execLog)].name \notin RegisteredTools)
          => /\ pending.success = FALSE
             /\ pending.result # NoText

\* C3: no step of a plan makes process_query raise: every step that is not
\* skipped yields a result that is appended to tool_results.
C3_NoStepRaises ==
    /\ error # "TypeError"
    /\ pc = "loop" => Len(tool_results) = Len(execLog)

\* C4: when process_query has ended, every step among the first MAX_STEPS whose
\* tool is not general_chat was passed to registry.execute exactly once, and
\* tool_results holds one result for each of them.
C4_FailedStepNeverAbortsPlan ==
    (pc \in {"done", "raised"}) =>
        /\ \A j \in Executable(plan) :
              Cardinality({k \in 1..Len(execLog) : execLog[k].idx = j}) = 1
        /\ Len(tool_results) = Cardinality(Executable(plan))

\* C5: one process_query makes at most MAX_STEPS registry.execute calls, none of
\* them for a step beyond position MAX_STEPS, and the loop position never passes
\* the end of the capped plan.
C5_PlanCappedAtMaxSteps ==
    /\ Len(execLog) <= MAX_STEPS
    /\ \A k \in 1..Len(execLog) : execLog[k].idx \in 1..MAX_STEPS
    /\ i <= Min(Len(plan), MAX_STEPS) + 1
    /\ Len(tool_results) <= MAX_STEPS

W_C5_LongPlanReturned ==
    /\ pc = "done"
    /\ Len(plan) > MAX_STEPS
    /\ Len(execLog) = MAX_STEPS
    /\ Len(retval.tool_results) = MAX_STEPS

\* C6: when the plan is one general_chat step, process_query never enters the
\* step loop, never calls registry.execute or summarise_results, and when it
\* returns it has called general_chat once, appended one assistant turn tagged
\* type = general, and returns empty tool_results and images.
C6_GeneralChatShortCircuit ==
    (pc # "planning" /\ ChatOnlyPlan) =>
        /\ pc \in {"planned", "done", "raised"}
        /\ execLog = <<>>
        /\ \A k \in 1..Len(llmCalls) : llmCalls[k] # "summarise_results"
        /\ pc = "done" =>
            /\ llmCalls = <<"plan_tools", "general_chat">>
            /\ LastMessage.role = "assistant"
            /\ LastMessage.metadata = GeneralMetadata
            /\ messages[Len(messages) - 1].role = "user"
            /\ retval.returned
            /\ retval.tool_results = <<>>
            /\ retval.images = <<>>

W_C6_ShortCircuitReturned ==
    pc = "done" /\ ChatOnlyPlan /\ retval.returned

\* C7: steps run in plan order and one at a time: when a registry.execute call
\* starts, the results of all earlier calls are already in tool_results and in
\* the digest, and tool_results lists the results in the order of their steps.
C7_StepsInOrderOneAtATime ==
    /\ Len(tool_results) <= Len(execLog)
    /\ Len(execLog) <= Len(tool_results) + 1
    /\ Len(execLog) = Len(tool_results) + 1 => pc \in {"executed", "raised"}
    /\ \A k \in 1..Len(execLog) :
          /\ execLog[k].recorded = k - 1
          /\ execLog[k].digest = DigestOf(SubSeq(tool_results, 1, k - 1))
          /\ k > 1 => execLog[k - 1].idx < execLog[k].idx
    /\ \A k \in 1..Len(tool_results) :
          /\ tool_results[k].tool = StepTool(CappedPlan(plan)[execLog[k].idx])
          /\ tool_results[k].reason = StepReason(CappedPlan(plan)[execLog[k].idx])

W_C7_TwoDifferentStepsRecorded ==
    /\ pc = "done"
    /\ Len(tool_results) >= 2
    /\ tool_results[1].tool # tool_results[2].tool
    /\ ~tool_results[1].success

\* C8: a report_generator step called after at least one executed step of the
\* same query gets as analysis_results the digest of exactly the results
\* recorded so far in this query (failed ones included) and as question the
\* user query, unless the planner supplied the argument, which is then kept.
C8_ReportGetsDigest ==
    \A k \in 1..Len(execLog) :
        LET e == execLog[k]
        IN  (e.name = "report_generator" /\ k > 1) =>
              /\ {"analysis_results", "question"} \subseteq e.kwargs.keys
              /\ e.kwargs.val["analysis_results"] =
                    IF "analysis_results" \in e.given.keys
                    THEN e.given.val["analysis_results"]
                    ELSE DigestOf(SubSeq(tool_results, 1, k - 1))
              /\ e.kwargs.val["question"] =
                    IF "question" \in e.given.keys
                    THEN e.given.val["question"]
                    ELSE user_query

W_C8_DigestInjectedInSecondQuery ==
    /\ pc = "executed"
    /\ asked = Queries
    /\ Len(messages) >= 3
    /\ Len(execLog) = 3
    /\ execLog[3].name = "report_generator"
    /\ "analysis_results" \notin execLog[3].given.keys
    /\ ~tool_results[2].success
    /\ pending.success

\* C9: a process_query that returned made exactly one final-answer call to the
\* language model: summarise_results if at least one step was executed,
\* general_chat otherwise.
C9_ExactlyOneFinalCall ==
    pc = "done" =>
        /\ Len(FinalCalls) = 1
        /\ (FinalCalls[1] = "summarise_results") <=> (execLog # <<>>)
        /\ (FinalCalls[1] = "general_chat") <=> (Executable(plan) = {})
        /\ retval.response = <<FinalCalls[1]>> \o user_query

W_C9_EmptyPlanFallsBackToChat ==
    /\ pc = "done"
    /\ plan = <<>>
    /\ FinalCalls = <<"general_chat">>

\* C10: outside the short circuit, the returned images are exactly the artifact
\* paths of the returned step results, in step order, and the assistant turn
\* appended says type = analysis, tools_used = the tools of tool_results in
\* order, and the same images.
C10_ReturnAndTurnAgree ==
    (pc = "done" /\ ~ChatOnlyPlan) =>
        /\ retval.returned
        /\ retval.tool_results = tool_results
        /\ retval.images = PathsOf(retval.tool_results)
        /\ LastMessage.role = "assistant"
        /\ LastMessage.content = retval.response
        /\ LastMessage.metadata.keys = {"type", "tools_used", "images"}
        /\ LastMessage.metadata.type = "analysis"
        /\ LastMessage.metadata.images = retval.images
        /\ Len(LastMessage.metadata.tools_used) = Len(retval.tool_results)
        /\ \A k \in 1..Len(retval.tool_results) :
              /\ LastMessage.metadata.tools_used[k] = retval.tool_results[k].tool
              /\ retval.tool_results[k].tool =
                    StepTool(CappedPlan(plan)[execLog[k].idx])

W_C10_ChartAmongOtherResults ==
    /\ pc = "done"
    /\ Len(retval.tool_results) >= 3
    /\ retval.tool_results[1].image_path = NoPath
    /\ retval.tool_results[2].image_path # NoPath
    /\ Len(retval.images) = 1

\* The latest language-model call of the running query raised.
LlmRaised == llmCalls # <<>> /\ llmCalls[Len(llmCalls)] = "raised"

\* C11: when the language-model call made for planning, for general chat or for
\* the final answer raises, process_query ends with that exception: it returns no
\* response, and the last turn of the context is still the user turn of the
\* query, no assistant turn having been appended.
C11_LlmFailurePropagates ==
    LlmRaised =>
        /\ pc = "raised"
        /\ error = "LLMError"
        /\ ~retval.returned
        /\ Len(messages) = 1
        /\ LastMessage.role = "user"
        /\ LastMessage.content = user_query

W_C11_SynthesisRaisedAfterTools ==
    /\ LlmRaised
    /\ llmCalls = <<"plan_tools", "summarise_results", "raised">>
    /\ Len(tool_results) >= 2

\* The planner has been answered and its answer has gone through the parser.
Answered == parsed.outcome # "unset"
AnswerText == planner_response.text

\* C12: whatever the model answers to the planning prompt (JSON of any shape,
\* fenced or not, text with stray brackets, empty or absent content), plan_tools
\* returns without raising, and what it returns is a list in which every element
\* is a step mapping.
C12_PlanAlwaysWellFormed ==
    Answered => parsed.outcome = "returned" /\ WellFormed(parsed.plan)

\* The text is a JSON array of step objects and nothing else.
ArrayOfSteps(t) ==
    /\ Len(t) >= 2
    /\ t[1] = Open
    /\ t[Len(t)] = Close
    /\ \A k \in 2..(Len(t) - 1) : t[k] \in ObjectTokens

\* The step a step object of the answer spells out.
StepWritten(tok) == IF tok = ObjSql THEN SqlStep ELSE ChatStep

JsonPlans ==
    {<<Open>> \o items \o <<Close>> : items \in SeqsUpTo(ObjectTokens, MaxElems)}

\* C14: for every valid JSON plan J, parsing J wrapped in fence markers, with or
\* without the json tag and with or without prose around the fences, returns
\* what parsing J alone returns.
C14_FencingKeepsPlan ==
    Answered =>
        \A J \in JsonPlans, before \in ProseBefore, after \in ProseAfter,
           fence \in {Fence, FenceJson} :
            AnswerText = before \o <<fence>> \o J \o <<Fence>> \o after
                => parsed = ParseToolPlan(Str(J))

\* No part of the text is JSON.
NotJsonAtAll(t) ==
    \A a \in 1..Len(t), b \in 1..Len(t) : a <= b => ~JsonLoads(SubSeq(t, a, b)).ok

\* C15: when the answer of the model is a text no part of which is JSON,
\* plan_tools returns one step, of tool general_chat, whose message argument is
\* the answer as it came, and process_query takes the short circuit: it calls
\* general_chat, runs no tool and returns that answer.
C15_NotJsonBecomesGeneralChat ==
    (Answered /\ planner_response.kind = "str" /\ NotJsonAtAll(AnswerText)) =>
        /\ parsed.outcome = "returned"
        /\ Len(parsed.plan) = 1
        /\ parsed.plan[1].type = "object"
        /\ StepTool(parsed.plan[1].step) = "general_chat"
        /\ "message" \in StepArgs(parsed.plan[1].step).keys
        /\ ArgGet(StepArgs(parsed.plan[1].step), "message") = AnswerText
        /\ plan = <<parsed.plan[1].step>>
        /\ pc \in {"planned", "done", "raised"}
        /\ execLog = <<>>
        /\ pc = "raised" => llmCalls = <<"plan_tools", "general_chat", "raised">>
        /\ pc = "done" =>
              /\ llmCalls = <<"plan_tools", "general_chat">>
              /\ retval = Returned(LlmAnswer("general_chat", user_query), <<>>, <<>>)

W_C15_ProseWithBracketsAnswered ==
    /\ AnswerText = <<Word, Open, Word, Close, Word>>
    /\ pc = "done"
    /\ retval.returned

\* C16: whatever max_history the context was built with (0 included), and after
\* any sequence of add_message, clear_context and start_new_session calls, the
\* context holds at most max_history turns.
C16_AtMostMaxHistory == Len(messages) <= max_history

LineOf(turn) ==
    <<IF turn.role = "user" THEN "user_label:" ELSE "assistant_label:">> \o turn.content

\* C18: get_formatted_history(n), n >= 1, returns the last min(n, count) turns
\* the context holds, oldest first, one line per turn made of the role label
\* and the content of the turn; so after a user turn and then an assistant turn
\* get_formatted_history(2) returns the user line and then the assistant line.
C18_FormattedHistoryRoundTrip ==
    (called.method = "get_formatted_history" /\ window_size >= 1 /\ messages # <<>>) =>
        LET count == Len(messages)
            k == IF window_size <= count THEN window_size ELSE count
            turn(j) == messages[count - k + j]
        IN  /\ Len(history) = 3 * k - 1
            /\ \A j \in 1..k :
                  /\ SubSeq(history, 3 * j - 2, 3 * j - 1) = LineOf(turn(j))
                  /\ j < k => history[3 * j] = "\n"
            /\ (window_size = 2 /\ count >= 2 /\ messages[count - 1].role = "user"
                    /\ messages[count].role = "assistant") =>
                  history = <<"user_label:">> \o messages[count - 1].content \o <<"\n">>
                            \o <<"assistant_label:">> \o messages[count].content

W_C18_UserThenAssistantRead ==
    /\ window_size = 2
    /\ Len(messages) = 3
    /\ history = <<"user_label:", "x", "\n", "assistant_label:", "y">>

\* C19: whenever the context holds a turn it has a session, with its id and its
\* start time; the id and the start time are set and reset together; without a
\* session the context holds no turn, and the next add_message starts a session
\* that holds the new turn only.
C19_TurnsLiveInASession ==
    /\ [](/\ messages # <<>> =>
                (current_session_id # NoSession /\ session_start_time # NoTime)
          /\ current_session_id = NoSession <=> session_start_time = NoTime)
    /\ [][(current_session_id = NoSession /\ messages' # <<>>) =>
             /\ Len(messages') = 1
             /\ current_session_id' # NoSession
             /\ created' = Append(created, current_session_id')]_vars

W_C19_FreshSessionAfterClear ==
    /\ Len(created) = 2
    /\ Len(messages) = 1
    /\ session_start_time = <<MaxTime>>
    /\ current_session_id = created[2]

\* C20: no two sessions the context has started carry the same session id,
\* however close in time they were started.
C20_SessionIdsUnique ==
    \A a \in 1..Len(created), b \in 1..Len(created) :
        a # b => created[a] # created[b]

---------------------------------------------------------------------------
(* Calls in flight together *)

IsUserTurn(turn) == turn.role = "user"
IsAssistantTurn(turn) == turn.role = "assistant"

\* The query a turn belongs to: the content of a user turn, and what the answer
\* of the model was given for an assistant turn.
QueryOf(turn) == IF IsUserTurn(turn) THEN turn.content ELSE Tail(turn.content)

\* C21: when two process_query calls run on the same agent at once, no turn of
\* the other query stands between the user turn of a query and the assistant
\* turn of the same query.
C21_QueriesSerialized ==
    \A j \in 1..Len(messages), l \in 1..Len(messages) :
        ( /\ j < l
          /\ IsUserTurn(messages[j])
          /\ IsAssistantTurn(messages[l])
          /\ QueryOf(messages[j]) = QueryOf(messages[l]) )
        => \A k \in (j + 1)..(l - 1) : QueryOf(messages[k]) = QueryOf(messages[j])

\* C30: every assistant turn the context holds comes after the user turn of its
\* query in the same session, also when clear_context runs between the two
\* appends of a call.  (The context keeps MaxHistory turns and a session of two
\* queries has at most four, so no turn is ever evicted.)
C30_AssistantAfterItsUserTurn ==
    \A k \in 1..Len(messages) :
        IsAssistantTurn(messages[k])
        => \E j \in 1..(k - 1) :
                /\ IsUserTurn(messages[j])
                /\ QueryOf(messages[j]) = QueryOf(messages[k])

---------------------------------------------------------------------------
(* The registry *)

\* The tool passed by the latest register call that declared the name.
LastRegistered(name) ==
    LET calls == {k \in 1..Len(registered) : registered[k].name = name}
    IN  IF calls = {} THEN Absent
        ELSE registered[CHOOSE k \in calls : \A m \in calls : m <= k]

\* The names in the order in which each was registered for the first time.
RECURSIVE FirstRegistrations(_)
FirstRegistrations(calls) ==
    IF calls = <<>> THEN <<>>
    ELSE LET before == FirstRegistrations(SubSeq(calls, 1, Len(calls) - 1))
             name == calls[Len(calls)].name
         IN  IF \E j \in 1..Len(before) : before[j] = name THEN before
             ELSE Append(before, name)

NotFound(name) ==
    [success |-> FALSE, result |-> <<"tool_not_found:", name>>, image_path |-> NoPath]

\* C22: after any sequence of register calls the registry holds one tool per
\* distinct name; get and execute resolve a name to the tool registered last
\* under it, and a name never registered to the absent value, without error;
\* get_descriptions gives one descriptor per name, that of the tool registered
\* last, in the order of the first registrations.
C22_RegistrationIsUpsert ==
    LET names == FirstRegistrations(registered)
    IN  /\ \A j, k \in 1..Len(tools) : tools[j].key = tools[k].key => j = k
        /\ Len(tools) = Len(names)
        /\ \A name \in ToolNames \cup {"no_such_tool"} :
            /\ RegistryGet(name) = LastRegistered(name)
            /\ \A o \in Outcomes(name, EmptyDict, charts) :
                RegistryExecute(name, o) =
                    IF LastRegistered(name) = Absent THEN NotFound(name)
                    ELSE SafeExecute(LastRegistered(name).name, o)
        /\ ListTools(tools) = [j \in 1..Len(names) |-> LastRegistered(names[j])]
        /\ GetDescriptions(tools) =
                [j \in 1..Len(names) |-> GetDescription(LastRegistered(names[j]))]

\* a name registered, another one, then the first name again with a new tool
W_C22_NameRegisteredAgain ==
    /\ registered = <<Tool("sql_query", 1), Tool("custom_tool", 1), Tool("sql_query", 2)>>
    /\ tools = <<[key |-> "sql_query", value |-> Tool("sql_query", 2)],
                 [key |-> "custom_tool", value |-> Tool("custom_tool", 1)]>>
    /\ RegistryGet("report_generator") = Absent

---------------------------------------------------------------------------
(* The results of the steps *)

\* C23: every result process_query has collected with success = False carries a
\* text that is not empty: the not-found text naming the tool for an unknown
\* tool, the text naming the tool and the exception for an exception caught by
\* safe_execute, the tool's own text otherwise; and a result carries an image
\* path only when its success flag is True.
C23_FailuresCarryDiagnostics ==
    \A k \in 1..Len(tool_results) :
        LET result == tool_results[k]
            call == execLog[k]
        IN  /\ ~result.success => result.result # NoText
            /\ result.image_path # NoPath => result.success
            /\ call.cause = "unknown_tool"
               => ~result.success /\ result.result = <<"tool_not_found:", call.name>>
            /\ call.tool_raised
               => /\ ~result.success
                  /\ call.failure # NoText
                  /\ result.result = <<"tool_failed:", call.name>> \o call.failure

\* a plan with an unknown tool and a tool that raised, answered all the same
W_C23_UnknownAndRaisedCollected ==
    /\ pc = "done"
    /\ \E k \in 1..Len(tool_results) : execLog[k].cause = "unknown_tool"
    /\ \E k \in 1..Len(tool_results) : execLog[k].tool_raised


\* The ways the query of the visualization tool can come to nothing.
NoFrame == {"no_sql_extracted", "query_failed", "no_rows"}

\* A call of the visualization tool that ended for want of data.
ChartWithoutData(call) ==
    call.name = "data_visualization" /\ ~call.raised /\ call.cause \in NoFrame

\* C24: when the visualization tool cannot extract a query from the model's
\* reply, or its query fails or returns no rows, it returns success = False with
\* no image path and draws nothing; process_query records that result, adds
\* nothing to images for it and goes on: the call is never left at that step,
\* and when it returns it has called summarise_results.
C24_ChartWithoutDataGoesOn ==
    /\ [](\A k \in 1..Len(execLog) :
            ChartWithoutData(execLog[k]) =>
                /\ execLog[k].effects \cap {"render", "file"} = {}
                /\ ~execLog[k].tool_raised
                /\ k <= Len(tool_results) =>
                      /\ ~tool_results[k].success
                      /\ tool_results[k].image_path = NoPath
                      /\ tool_results[k].result # NoText
                /\ k > Len(tool_results) =>
                      /\ pc = "executed"
                      /\ ~pending.success
                      /\ pending.image_path = NoPath
                /\ pc = "done" =>
                      /\ retval.returned
                      /\ FinalCalls = <<"summarise_results">>
                      /\ Len(retval.tool_results) >= k
                      /\ retval.tool_results[k] = tool_results[k]
                /\ pc = "raised" =>
                      \/ error = "LLMError"
                      \/ error = "TypeError" /\ i > execLog[k].idx)
    /\ [][(pc = "executed" /\ ChartWithoutData(execLog[Len(execLog)])) =>
            /\ pc' = "loop"
            /\ error' = "None"
            /\ i' = i + 1
            /\ tool_results' =
                  Append(tool_results,
                         Decorate(pending, "data_visualization",
                                  StepReason(CappedPlan(plan)[i])))
            /\ images' = images]_vars

\* a chart asked for, no rows, a second step, and the summary returned
W_C24_NoRowsThenSummary ==
    /\ pc = "done"
    /\ Len(execLog) = 2
    /\ ChartWithoutData(execLog[1])
    /\ execLog[1].cause = "no_rows"
    /\ tool_results[2].success
    /\ images = <<>>
    /\ retval.returned
    /\ retval.response = LlmAnswer("summarise_results", user_query)


\* C25: when no SQL can be extracted from the model's reply, or the query
\* returns no rows, the sql_query tool returns success = False; a reply without
\* SQL is not sent to the database.
C25_SqlWithoutDataFails ==
    \A k \in 1..Len(execLog) :
        ( /\ execLog[k].name = "sql_query"
          /\ ~execLog[k].raised
          /\ execLog[k].cause \in {"no_sql_extracted", "no_rows"} )
        => /\ execLog[k].cause = "no_sql_extracted" => "db" \notin execLog[k].effects
           /\ k <= Len(tool_results) => ~tool_results[k].success
           /\ k > Len(tool_results) => ~pending.success

\* C26: a report_generator call whose analysis_results is absent or empty, as
\* it is for a first executed step the planner gave none, returns success =
\* False with the tool's own text, without a language-model call and without a
\* file written.
C26_ReportFailsFastWithoutAnalysis ==
    \A k \in 1..Len(execLog) :
        (execLog[k].name = "report_generator" /\ ~execLog[k].raised) =>
            /\ ( /\ execLog[k].recorded = 0
                 /\ "analysis_results" \notin execLog[k].given.keys )
               => "analysis_results" \notin execLog[k].kwargs.keys
            /\ ArgGet(execLog[k].kwargs, "analysis_results") = NoText
               => /\ execLog[k].cause = "no_analysis_results"
                  /\ execLog[k].effects = {}
                  /\ ~execLog[k].tool_raised
                  /\ k <= Len(tool_results) =>
                        /\ ~tool_results[k].success
                        /\ tool_results[k].result = <<"no_analysis_results">>
                        /\ tool_results[k].image_path = NoPath
                  /\ k > Len(tool_results) =>
                        pending = [success |-> FALSE,
                                   result |-> <<"no_analysis_results">>,
                                   image_path |-> NoPath]

\* a plan whose first executed step is the report, answered all the same
W_C26_ReportFirstFailed ==
    /\ pc = "done"
    /\ Len(plan) = 2
    /\ StepTool(plan[1]) = "general_chat"
    /\ Len(execLog) = 1
    /\ execLog[1].name = "report_generator"
    /\ execLog[1].given = EmptyDict
    /\ execLog[1].cause = "no_analysis_results"
    /\ ~tool_results[1].success

---------------------------------------------------------------------------
(* The second tier of the parser *)

\* The first balanced bracketed part of a text: from the first opening bracket
\* that has a closing one to that closing one; nothing when there is none.
FirstBalanced(t) ==
    LET opens == {a \in 1..Len(t) : t[a] = Open /\ Matching(t, a + 1, 1) # 0}
    IN  IF opens = {} THEN <<>>
        ELSE LET a == CHOOSE a \in opens : \A b \in opens : a <= b
             IN  SubSeq(t, a, Matching(t, a + 1, 1))

\* C27: when the strict parse of the answer fails and the first balanced
\* bracketed part of the answer parses, the parser returns the parse of that
\* part as the plan; it falls back to the general_chat step only when that part
\* does not parse.
C27_SecondTierFirstBalanced ==
    ( /\ Answered
      /\ planner_response.kind = "str"
      /\ ~JsonLoads(Unfenced(AnswerText)).ok
      /\ JsonLoads(FirstBalanced(AnswerText)).ok )
    => parsed = ParseReturns(JsonLoads(FirstBalanced(AnswerText)).items)

---------------------------------------------------------------------------
(* The arguments of the steps *)

\* The last line of a formatted history.
LastLine(text) ==
    LET breaks == {k \in 1..Len(text) : text[k] = "\n"}
        from == IF breaks = {} THEN 1
                ELSE (CHOOSE k \in breaks : \A m \in breaks : m <= k) + 1
    IN  SubSeq(text, from, Len(text))

\* C28: every step passed to registry.execute carries a context argument: the
\* planner's value when the args of the step hold the key, otherwise the history
\* text fetched at the start of this call, whose last line is the current
\* query; a general_chat step of a mixed plan is passed to nothing.
C28_EveryStepCarriesContext ==
    /\ pc \notin {"idle"} =>
          LastLine(history) = <<RoleLabel("user")>> \o user_query
    /\ \A k \in 1..Len(execLog) :
          LET call == execLog[k]
          IN  /\ call.name # "general_chat"
              /\ "context" \in call.kwargs.keys
              /\ "context" \in call.given.keys
                 => ArgGet(call.kwargs, "context") = ArgGet(call.given, "context")
              /\ "context" \notin call.given.keys
                 => ArgGet(call.kwargs, "context") = history
    /\ pc \in {"done", "raised"} =>
          \A k \in 1..Len(CappedPlan(plan)) :
              StepTool(CappedPlan(plan)[k]) = "general_chat"
              => \A c \in 1..Len(execLog) : execLog[c].idx # k

\* a step with the planner's context, then one with the history
W_C28_OwnAndDefaultContext ==
    /\ pc = "done"
    /\ Len(execLog) = 2
    /\ "context" \in execLog[1].given.keys
    /\ ArgGet(execLog[1].kwargs, "context") = <<"planner_context">>
    /\ "context" \notin execLog[2].given.keys
    /\ ArgGet(execLog[2].kwargs, "context") = <<"user_label:", "q1">>

---------------------------------------------------------------------------
(* What a call leaves in the context *)

UserTurn(query) == [role |-> "user", content |-> query, metadata |-> NoMetadata]

\* C29: process_query does not roll the context back.  A call that returns has
\* appended two turns, the user turn first and the assistant turn with the
\* returned answer last; a call still on its way, or left by an exception, has
\* appended the user turn only, which stays; so the history of the next query
\* shows that user turn without an answer.
C29_NoRollback ==
    /\ Cardinality({k \in 1..Len(messages) : IsUserTurn(messages[k])})
          = Cardinality(asked)
    /\ \A k \in 1..Len(messages) :
          IsAssistantTurn(messages[k]) =>
              /\ k > 1
              /\ messages[k - 1] = UserTurn(QueryOf(messages[k]))
    /\ pc = "done" =>
          /\ Len(messages) >= 2
          /\ messages[Len(messages) - 1] = UserTurn(user_query)
          /\ IsAssistantTurn(LastMessage)
          /\ LastMessage.content = retval.response
    /\ pc \in {"planning", "planned", "loop", "executed", "raised"} =>
          /\ messages # <<>>
          /\ LastMessage = UserTurn(user_query)
          /\ history = FormattedHistory(messages, WindowSize)
    /\ pc = "raised" => ~retval.returned

\* the first query was left by an exception of the final model call; the second
\* one sees its user turn unanswered and is answered itself
W_C29_UnansweredTurnInNextHistory ==
    /\ pc = "done"
    /\ asked = {"q1", "q2"}
    /\ Len(messages) = 3
    /\ IsUserTurn(messages[1])
    /\ IsUserTurn(messages[2])
    /\ IsAssistantTurn(messages[3])
    /\ history = <<"user_label:">> \o messages[1].content \o <<"\n", "user_label:">>
                    \o user_query

=============================================================================
